---------------------------- MODULE Spec2Model ----------------------------
(***************************************************************************)
(* A model of the AMT repository: the Decoder (postprocess_output in       *)
(* utils/utils.py) and the Training Orchestrator (train in train.py,       *)
(* together with the Keras callbacks it configures).                       *)
(*                                                                         *)
(* Three specifications share the variables below:                         *)
(*   SpecDecode  - postprocess_output on a bounded probability matrix;     *)
(*   SpecTrain   - train() as a fresh run or as a resume from what an      *)
(*                 earlier run left on disk                                *)
(*   SpecResume  - train() on every short load_model_path over a small     *)
(*                 alphabet, for the filename parsing.                     *)
(* Each pins the variables of the component it does not exercise.          *)
(***************************************************************************)
EXTENDS Integers, Sequences, FiniteSets, TLC

VARIABLES
    \* ---- Decoder (utils.py, postprocess_output) ----
    output_tensor,    \* batch 0 of the model output: Seq of rows, row: class -> score
    predicted_notes,  \* torch.max(...)[1][0]: Seq of class indices
    i,                \* the loop index of "for i, note in enumerate(...)"
    events,           \* the addNote calls made so far, in call order
    dpc,              \* position in postprocess_output
    \* ---- Training Orchestrator (train.py, train) ----
    load_model_path,  \* the argument, a sequence of one-character strings
    num_epochs,       \* config.num_epochs
    disk,             \* files on disk: path -> content
    prior_losses,     \* validation losses of the epochs the earlier run completed
    tpc,              \* position in train()
    initial_epoch,    \* train.py:91,97
    model,            \* the Keras model: weights, optimizer state, compiled flag
    loaded,           \* whether load_model / load_weights has been called
    epoch,            \* the loop variable of model.fit
    val_loss,         \* logs['val_loss'] of the current epoch
    losses,           \* validation losses observed by this run, by epoch order
    epochs_run,       \* number of epochs this run has trained
    wait,             \* EarlyStopping.wait
    best,             \* EarlyStopping.best
    best_weights,     \* EarlyStopping.best_weights
    stop_training,    \* model.stop_training
    written           \* paths this run has written, in write order

dvars == <<output_tensor, predicted_notes, i, events, dpc>>
tvars == <<load_model_path, num_epochs, disk, prior_losses, tpc, initial_epoch,
           model, loaded, epoch, val_loss, losses, epochs_run, wait, best,
           best_weights, stop_training, written>>
vars == <<dvars, tvars>>

Max(a, b) == IF a >= b THEN a ELSE b

(***************************************************************************)
(*                              THE DECODER                                *)
(***************************************************************************)

\* Bounds of the decoder's input.
MaxFrames == 2
NumClasses == 130

\* The highest pitch the target format represents (utils.py:117).
MidiMax == 127
\* config.hop_length and config.sr (conf/conf.py is not part of the sources;
\* the values are those of the specification's end-to-end scenario).
hop_length == 512
sr == 44100
\* volume, track, channel of postprocess_output.
volume == 100

Classes == 0 .. NumClasses - 1

\* Scores are probabilities on a three-point scale: 0, 1/2, 1 as 0, 1, 2.
\* A row has the score 2 at class c, the score v at class d and 0 elsewhere:
\* the rows with one maximum, with two equal maxima, and with a lower score
\* on the rest class.
Row(c, d, v) == [n \in Classes |-> IF n = c THEN 2 ELSE IF n = d THEN v ELSE 0]
Peaks == {0, 1, MidiMax, MidiMax + 1}
Rows == {Row(c, d, 2) : c \in Peaks, d \in Peaks} \cup {Row(c, 0, 1) : c \in Peaks}

RECURSIVE SeqsUpTo(_, _)
SeqsUpTo(S, n) ==
    IF n = 0 THEN {<<>>}
    ELSE LET shorter == SeqsUpTo(S, n - 1)
         IN  shorter \cup {Append(s, x) : s \in {q \in shorter : Len(q) = n - 1}, x \in S}

\* torch.max(output_tensor, dim=2) on one row: the index of the maximal score,
\* the first one when several classes share it.  The reduction is done over
\* halves of the row, a tie going to the lower index.
RECURSIVE ArgMaxRange(_, _, _)
ArgMaxRange(row, lo, hi) ==
    IF lo = hi THEN lo
    ELSE LET mid == (lo + hi) \div 2
             l == ArgMaxRange(row, lo, mid)
             r == ArgMaxRange(row, mid + 1, hi)
         IN  IF row[r] > row[l] THEN r ELSE l

ArgMax(row) == ArgMaxRange(row, 0, NumClasses - 1)

\* frame_duration = config.hop_length / float(config.sr), kept as a fraction.
frame_duration == [num |-> hop_length, den |-> sr]
\* start_time = i * frame_duration
StartTime(t) == [num |-> t * frame_duration.num, den |-> frame_duration.den]

\* utils.py:111 "if note.item() > 0" and utils.py:117 "if 0 < pitch <= 127"
EmitsNoCeiling(note) == note > 0
Emits(note) == note > 0 /\ (0 < note /\ note <= MidiMax)

\* midi.addNote(track, channel, pitch, start_time, duration, volume)
NoteMergedWithPrevious(evs, t, note) ==
    IF /\ Len(evs) > 0
       /\ evs[Len(evs)].pitch = note
       /\ evs[Len(evs)].start_time.num + evs[Len(evs)].duration.num = StartTime(t).num
    THEN [evs EXCEPT ![Len(evs)].duration.num = @ + frame_duration.num]
    ELSE Append(evs, [pitch |-> note, start_time |-> StartTime(t),
                      duration |-> frame_duration, volume |-> volume])
AddNote(evs, t, note) ==
    Append(evs, [pitch |-> note, start_time |-> StartTime(t),
                 duration |-> frame_duration, volume |-> volume])

\* utils.py:92  a, predicted_notes = torch.max(output_tensor, dim=2)
D_ArgMax ==
    /\ dpc = "start"
    /\ predicted_notes' = [t \in 1 .. Len(output_tensor) |-> ArgMax(output_tensor[t])]
    /\ i' = 0
    /\ dpc' = "loop"
    /\ UNCHANGED <<output_tensor, events>>

\* utils.py:110-118  one iteration of the loop over predicted_notes[0]
D_Frame ==
    /\ dpc = "loop"
    /\ i < Len(predicted_notes)
    /\ LET note == predicted_notes[i + 1]
       IN  events' = IF Emits(note) THEN AddNote(events, i, note) ELSE events
    /\ i' = i + 1
    /\ UNCHANGED <<output_tensor, predicted_notes, dpc>>

\* utils.py:120-121  the loop is over; the file is written
D_WriteFile ==
    /\ dpc = "loop"
    /\ i = Len(predicted_notes)
    /\ dpc' = "done"
    /\ UNCHANGED <<output_tensor, predicted_notes, i, events>>

DecodeStart ==
    /\ output_tensor \in SeqsUpTo(Rows, MaxFrames)
    /\ predicted_notes = <<>>
    /\ i = 0
    /\ events = <<>>
    /\ dpc = "start"

DecodeIdle ==
    /\ output_tensor = <<>>
    /\ predicted_notes = <<>>
    /\ i = 0
    /\ events = <<>>
    /\ dpc = "idle"

(***************************************************************************)
(*                       THE TRAINING ORCHESTRATOR                         *)
(***************************************************************************)

\* Bounds: the configured epoch count of SpecTrain, how many epochs the
\* earlier run may have completed, and the inputs of SpecResume.
NumEpochs == 12
MaxPrior == 2
MaxPathLen == 4
ShortEpochs == 6

\* EarlyStopping(patience=10, min_delta=0, ...) (train.py:131)
Patience == 10
MinDelta == 0

\* Validation losses, on a two-point scale.
Levels == {1, 2}

(* ------------------------------ strings ------------------------------- *)
\* A Python str is a sequence of characters.  An ASCII character is the
\* one-character string holding it; a character beyond U+007F is the string
\* "U+" followed by its code point in upper-case hexadecimal, four digits at
\* least ("U+00A0", "U+0665", "U+16AC5").

\* The ASCII digits, by value: what "{epoch:03d}" writes.
Digits == <<"0", "1", "2", "3", "4", "5", "6", "7", "8", "9">>

\* The decimal digits int() reads, by value (entry v + 1 holds the characters
\* of value v): the ASCII digit and the digits of every other script, the
\* characters of Unicode category Nd (Unicode 14.0, the table of CPython 3.11:
\* 660 characters).
DecimalDigitChars ==
  <<
     {"0", "U+0660", "U+06F0", "U+07C0", "U+0966", "U+09E6", "U+0A66",
      "U+0AE6", "U+0B66", "U+0BE6", "U+0C66", "U+0CE6", "U+0D66",
      "U+0DE6", "U+0E50", "U+0ED0", "U+0F20", "U+1040", "U+1090",
      "U+17E0", "U+1810", "U+1946", "U+19D0", "U+1A80", "U+1A90",
      "U+1B50", "U+1BB0", "U+1C40", "U+1C50", "U+A620", "U+A8D0",
      "U+A900", "U+A9D0", "U+A9F0", "U+AA50", "U+ABF0", "U+FF10",
      "U+104A0", "U+10D30", "U+11066", "U+110F0", "U+11136",
      "U+111D0", "U+112F0", "U+11450", "U+114D0", "U+11650",
      "U+116C0", "U+11730", "U+118E0", "U+11950", "U+11C50",
      "U+11D50", "U+11DA0", "U+16A60", "U+16AC0", "U+16B50",
      "U+1D7CE", "U+1D7D8", "U+1D7E2", "U+1D7EC", "U+1D7F6",
      "U+1E140", "U+1E2F0", "U+1E950", "U+1FBF0"},
     {"1", "U+0661", "U+06F1", "U+07C1", "U+0967", "U+09E7", "U+0A67",
      "U+0AE7", "U+0B67", "U+0BE7", "U+0C67", "U+0CE7", "U+0D67",
      "U+0DE7", "U+0E51", "U+0ED1", "U+0F21", "U+1041", "U+1091",
      "U+17E1", "U+1811", "U+1947", "U+19D1", "U+1A81", "U+1A91",
      "U+1B51", "U+1BB1", "U+1C41", "U+1C51", "U+A621", "U+A8D1",
      "U+A901", "U+A9D1", "U+A9F1", "U+AA51", "U+ABF1", "U+FF11",
      "U+104A1", "U+10D31", "U+11067", "U+110F1", "U+11137",
      "U+111D1", "U+112F1", "U+11451", "U+114D1", "U+11651",
      "U+116C1", "U+11731", "U+118E1", "U+11951", "U+11C51",
      "U+11D51", "U+11DA1", "U+16A61", "U+16AC1", "U+16B51",
      "U+1D7CF", "U+1D7D9", "U+1D7E3", "U+1D7ED", "U+1D7F7",
      "U+1E141", "U+1E2F1", "U+1E951", "U+1FBF1"},
     {"2", "U+0662", "U+06F2", "U+07C2", "U+0968", "U+09E8", "U+0A68",
      "U+0AE8", "U+0B68", "U+0BE8", "U+0C68", "U+0CE8", "U+0D68",
      "U+0DE8", "U+0E52", "U+0ED2", "U+0F22", "U+1042", "U+1092",
      "U+17E2", "U+1812", "U+1948", "U+19D2", "U+1A82", "U+1A92",
      "U+1B52", "U+1BB2", "U+1C42", "U+1C52", "U+A622", "U+A8D2",
      "U+A902", "U+A9D2", "U+A9F2", "U+AA52", "U+ABF2", "U+FF12",
      "U+104A2", "U+10D32", "U+11068", "U+110F2", "U+11138",
      "U+111D2", "U+112F2", "U+11452", "U+114D2", "U+11652",
      "U+116C2", "U+11732", "U+118E2", "U+11952", "U+11C52",
      "U+11D52", "U+11DA2", "U+16A62", "U+16AC2", "U+16B52",
      "U+1D7D0", "U+1D7DA", "U+1D7E4", "U+1D7EE", "U+1D7F8",
      "U+1E142", "U+1E2F2", "U+1E952", "U+1FBF2"},
     {"3", "U+0663", "U+06F3", "U+07C3", "U+0969", "U+09E9", "U+0A69",
      "U+0AE9", "U+0B69", "U+0BE9", "U+0C69", "U+0CE9", "U+0D69",
      "U+0DE9", "U+0E53", "U+0ED3", "U+0F23", "U+1043", "U+1093",
      "U+17E3", "U+1813", "U+1949", "U+19D3", "U+1A83", "U+1A93",
      "U+1B53", "U+1BB3", "U+1C43", "U+1C53", "U+A623", "U+A8D3",
      "U+A903", "U+A9D3", "U+A9F3", "U+AA53", "U+ABF3", "U+FF13",
      "U+104A3", "U+10D33", "U+11069", "U+110F3", "U+11139",
      "U+111D3", "U+112F3", "U+11453", "U+114D3", "U+11653",
      "U+116C3", "U+11733", "U+118E3", "U+11953", "U+11C53",
      "U+11D53", "U+11DA3", "U+16A63", "U+16AC3", "U+16B53",
      "U+1D7D1", "U+1D7DB", "U+1D7E5", "U+1D7EF", "U+1D7F9",
      "U+1E143", "U+1E2F3", "U+1E953", "U+1FBF3"},
     {"4", "U+0664", "U+06F4", "U+07C4", "U+096A", "U+09EA", "U+0A6A",
      "U+0AEA", "U+0B6A", "U+0BEA", "U+0C6A", "U+0CEA", "U+0D6A",
      "U+0DEA", "U+0E54", "U+0ED4", "U+0F24", "U+1044", "U+1094",
      "U+17E4", "U+1814", "U+194A", "U+19D4", "U+1A84", "U+1A94",
      "U+1B54", "U+1BB4", "U+1C44", "U+1C54", "U+A624", "U+A8D4",
      "U+A904", "U+A9D4", "U+A9F4", "U+AA54", "U+ABF4", "U+FF14",
      "U+104A4", "U+10D34", "U+1106A", "U+110F4", "U+1113A",
      "U+111D4", "U+112F4", "U+11454", "U+114D4", "U+11654",
      "U+116C4", "U+11734", "U+118E4", "U+11954", "U+11C54",
      "U+11D54", "U+11DA4", "U+16A64", "U+16AC4", "U+16B54",
      "U+1D7D2", "U+1D7DC", "U+1D7E6", "U+1D7F0", "U+1D7FA",
      "U+1E144", "U+1E2F4", "U+1E954", "U+1FBF4"},
     {"5", "U+0665", "U+06F5", "U+07C5", "U+096B", "U+09EB", "U+0A6B",
      "U+0AEB", "U+0B6B", "U+0BEB", "U+0C6B", "U+0CEB", "U+0D6B",
      "U+0DEB", "U+0E55", "U+0ED5", "U+0F25", "U+1045", "U+1095",
      "U+17E5", "U+1815", "U+194B", "U+19D5", "U+1A85", "U+1A95",
      "U+1B55", "U+1BB5", "U+1C45", "U+1C55", "U+A625", "U+A8D5",
      "U+A905", "U+A9D5", "U+A9F5", "U+AA55", "U+ABF5", "U+FF15",
      "U+104A5", "U+10D35", "U+1106B", "U+110F5", "U+1113B",
      "U+111D5", "U+112F5", "U+11455", "U+114D5", "U+11655",
      "U+116C5", "U+11735", "U+118E5", "U+11955", "U+11C55",
      "U+11D55", "U+11DA5", "U+16A65", "U+16AC5", "U+16B55",
      "U+1D7D3", "U+1D7DD", "U+1D7E7", "U+1D7F1", "U+1D7FB",
      "U+1E145", "U+1E2F5", "U+1E955", "U+1FBF5"},
     {"6", "U+0666", "U+06F6", "U+07C6", "U+096C", "U+09EC", "U+0A6C",
      "U+0AEC", "U+0B6C", "U+0BEC", "U+0C6C", "U+0CEC", "U+0D6C",
      "U+0DEC", "U+0E56", "U+0ED6", "U+0F26", "U+1046", "U+1096",
      "U+17E6", "U+1816", "U+194C", "U+19D6", "U+1A86", "U+1A96",
      "U+1B56", "U+1BB6", "U+1C46", "U+1C56", "U+A626", "U+A8D6",
      "U+A906", "U+A9D6", "U+A9F6", "U+AA56", "U+ABF6", "U+FF16",
      "U+104A6", "U+10D36", "U+1106C", "U+110F6", "U+1113C",
      "U+111D6", "U+112F6", "U+11456", "U+114D6", "U+11656",
      "U+116C6", "U+11736", "U+118E6", "U+11956", "U+11C56",
      "U+11D56", "U+11DA6", "U+16A66", "U+16AC6", "U+16B56",
      "U+1D7D4", "U+1D7DE", "U+1D7E8", "U+1D7F2", "U+1D7FC",
      "U+1E146", "U+1E2F6", "U+1E956", "U+1FBF6"},
     {"7", "U+0667", "U+06F7", "U+07C7", "U+096D", "U+09ED", "U+0A6D",
      "U+0AED", "U+0B6D", "U+0BED", "U+0C6D", "U+0CED", "U+0D6D",
      "U+0DED", "U+0E57", "U+0ED7", "U+0F27", "U+1047", "U+1097",
      "U+17E7", "U+1817", "U+194D", "U+19D7", "U+1A87", "U+1A97",
      "U+1B57", "U+1BB7", "U+1C47", "U+1C57", "U+A627", "U+A8D7",
      "U+A907", "U+A9D7", "U+A9F7", "U+AA57", "U+ABF7", "U+FF17",
      "U+104A7", "U+10D37", "U+1106D", "U+110F7", "U+1113D",
      "U+111D7", "U+112F7", "U+11457", "U+114D7", "U+11657",
      "U+116C7", "U+11737", "U+118E7", "U+11957", "U+11C57",
      "U+11D57", "U+11DA7", "U+16A67", "U+16AC7", "U+16B57",
      "U+1D7D5", "U+1D7DF", "U+1D7E9", "U+1D7F3", "U+1D7FD",
      "U+1E147", "U+1E2F7", "U+1E957", "U+1FBF7"},
     {"8", "U+0668", "U+06F8", "U+07C8", "U+096E", "U+09EE", "U+0A6E",
      "U+0AEE", "U+0B6E", "U+0BEE", "U+0C6E", "U+0CEE", "U+0D6E",
      "U+0DEE", "U+0E58", "U+0ED8", "U+0F28", "U+1048", "U+1098",
      "U+17E8", "U+1818", "U+194E", "U+19D8", "U+1A88", "U+1A98",
      "U+1B58", "U+1BB8", "U+1C48", "U+1C58", "U+A628", "U+A8D8",
      "U+A908", "U+A9D8", "U+A9F8", "U+AA58", "U+ABF8", "U+FF18",
      "U+104A8", "U+10D38", "U+1106E", "U+110F8", "U+1113E",
      "U+111D8", "U+112F8", "U+11458", "U+114D8", "U+11658",
      "U+116C8", "U+11738", "U+118E8", "U+11958", "U+11C58",
      "U+11D58", "U+11DA8", "U+16A68", "U+16AC8", "U+16B58",
      "U+1D7D6", "U+1D7E0", "U+1D7EA", "U+1D7F4", "U+1D7FE",
      "U+1E148", "U+1E2F8", "U+1E958", "U+1FBF8"},
     {"9", "U+0669", "U+06F9", "U+07C9", "U+096F", "U+09EF", "U+0A6F",
      "U+0AEF", "U+0B6F", "U+0BEF", "U+0C6F", "U+0CEF", "U+0D6F",
      "U+0DEF", "U+0E59", "U+0ED9", "U+0F29", "U+1049", "U+1099",
      "U+17E9", "U+1819", "U+194F", "U+19D9", "U+1A89", "U+1A99",
      "U+1B59", "U+1BB9", "U+1C49", "U+1C59", "U+A629", "U+A8D9",
      "U+A909", "U+A9D9", "U+A9F9", "U+AA59", "U+ABF9", "U+FF19",
      "U+104A9", "U+10D39", "U+1106F", "U+110F9", "U+1113F",
      "U+111D9", "U+112F9", "U+11459", "U+114D9", "U+11659",
      "U+116C9", "U+11739", "U+118E9", "U+11959", "U+11C59",
      "U+11D59", "U+11DA9", "U+16A69", "U+16AC9", "U+16B59",
      "U+1D7D7", "U+1D7E1", "U+1D7EB", "U+1D7F5", "U+1D7FF",
      "U+1E149", "U+1E2F9", "U+1E959", "U+1FBF9"}
  >>
IsDigit(c) == \E d \in 1 .. 10 : c \in DecimalDigitChars[d]
DigitVal(c) == (CHOOSE d \in 1 .. 10 : c \in DecimalDigitChars[d]) - 1

\* s.split(sep) for a one-character sep: the fields, left to right.
RECURSIVE SplitFrom(_, _, _, _)
SplitFrom(s, sep, k, field) ==
    IF k > Len(s) THEN <<field>>
    ELSE IF s[k] = sep THEN <<field>> \o SplitFrom(s, sep, k + 1, <<>>)
    ELSE SplitFrom(s, sep, k + 1, Append(field, s[k]))
Split(s, sep) == SplitFrom(s, sep, 1, <<>>)

SeqLast(q) == q[Len(q)]
SeqFirst(q) == q[1]

\* s.endswith(suffix)
EndsWith(s, suffix) ==
    /\ Len(s) >= Len(suffix)
    /\ SubSeq(s, Len(s) - Len(suffix) + 1, Len(s)) = suffix

\* The padding int() drops around the number: the ASCII space, tab, newline,
\* vertical tab (U+000B), form feed and carriage return, and the non-ASCII
\* white space, U+0085 and U+00A0 included.  (The separators U+001C-U+001F
\* are white space for str.isspace() but not for int().)
Whitespace ==
    {"\t", "\n", "", "\f", "\r", " ", "U+0085", "U+00A0", "U+1680",
     "U+2000", "U+2001", "U+2002", "U+2003", "U+2004", "U+2005",
     "U+2006", "U+2007", "U+2008", "U+2009", "U+200A", "U+2028",
     "U+2029", "U+202F", "U+205F", "U+3000"}
Strip(text) ==
    LET solid == {k \in 1 .. Len(text) : text[k] \notin Whitespace}
    IN  IF solid = {} THEN <<>>
        ELSE SubSeq(text, CHOOSE a \in solid : \A b \in solid : a <= b,
                          CHOOSE a \in solid : \A b \in solid : a >= b)

\* sys.int_max_str_digits, the default of CPython: int() raises ValueError on
\* a text of more decimal digits.
int_max_str_digits == 4300

\* int(text), base 10: surrounding whitespace is dropped; then an optional
\* sign; then one or more decimal digits, where single underscores may stand
\* between two digits; the digits (leading zeros counted, underscores not)
\* are at most int_max_str_digits.  Anything else raises ValueError.
Unsigned(text) ==
    IF Len(text) > 0 /\ text[1] \in {"+", "-"} THEN Tail(text) ELSE text
IsPyInt(text) ==
    LET body == Unsigned(Strip(text))
    IN  /\ Len(body) > 0
        /\ \A k \in 1 .. Len(body) :
            \/ IsDigit(body[k])
            \/ /\ body[k] = "_"
               /\ 1 < k
               /\ k < Len(body)
               /\ IsDigit(body[k - 1])
               /\ IsDigit(body[k + 1])
        /\ Len(SelectSeq(body, IsDigit)) <= int_max_str_digits
\* The value of a run of digits, by halves (a run of leading zeros adds
\* nothing).  Python's integers are unbounded; a value beyond the integers
\* of the model checker has no value here.
RECURSIVE Pow10(_)
Pow10(n) == IF n = 0 THEN 1 ELSE 10 * Pow10(n - 1)
RECURSIVE DecimalValueRange(_, _, _)
DecimalValueRange(ds, lo, hi) ==
    IF lo > hi THEN 0
    ELSE IF lo = hi THEN DigitVal(ds[lo])
    ELSE LET mid == (lo + hi) \div 2
             high == DecimalValueRange(ds, lo, mid)
             low == DecimalValueRange(ds, mid + 1, hi)
         IN  IF high = 0 THEN low ELSE high * Pow10(hi - mid) + low
DecimalValue(ds) == DecimalValueRange(ds, 1, Len(ds))
PyInt(text) ==
    LET core == Strip(text)
        magnitude == DecimalValue(SelectSeq(Unsigned(core), IsDigit))
    IN  IF Len(core) > 0 /\ core[1] = "-" THEN 0 - magnitude ELSE magnitude

\* train.py:95-97
\*   filename  = load_model_path.split('/')[-1]
\*   epoch_str = filename.split('_')[-1]
\*   initial_epoch = int(epoch_str.split('.')[0])
EpochText(path) ==
    LET filename == SeqLast(Split(path, "/"))
        epoch_str == SeqLast(Split(filename, "_"))
    IN  SeqFirst(Split(epoch_str, "."))

\* "{epoch:03d}": decimal, zero-padded to a width of three; the sign of a
\* negative number takes one place of the width.
RECURSIVE DecimalDigits(_)
DecimalDigits(n) ==
    IF n < 10 THEN <<Digits[n + 1]>>
    ELSE Append(DecimalDigits(n \div 10), Digits[(n % 10) + 1])
ZeroPad(ds, width) ==
    IF Len(ds) >= width THEN ds
    ELSE [k \in 1 .. (width - Len(ds)) |-> "0"] \o ds
Fmt03d(n) ==
    IF n < 0 THEN <<"-">> \o ZeroPad(DecimalDigits(0 - n), 2)
    ELSE ZeroPad(DecimalDigits(n), 3)

\* "/content/drive/MyDrive/model_mel_g3_a70_{epoch:03d}.h5" (train.py:130)
CkptPrefix == <<"/", "c", "o", "n", "t", "e", "n", "t", "/", "d", "r", "i", "v", "e",
                "/", "M", "y", "D", "r", "i", "v", "e", "/", "m", "o", "d", "e", "l",
                "_", "m", "e", "l", "_", "g", "3", "_", "a", "7", "0", "_">>
H5Ext == <<".", "h", "5">>
\* ModelCheckpoint formats the path with epoch + 1, the 1-based epoch number.
CkptPathZeroBased(number) == CkptPrefix \o Fmt03d(number - 1) \o H5Ext
CkptPath(number) == CkptPrefix \o Fmt03d(number) \o H5Ext
\* "./final_model.h5" (train.py:142) and "./final_model_w.ckpt" (train.py:143)
FinalModelPathEpochNamed == CkptPath(1)
FinalModelPath == <<".", "/", "f", "i", "n", "a", "l", "_", "m", "o", "d", "e", "l",
                    ".", "h", "5">>
FinalWeightsPath == <<".", "/", "f", "i", "n", "a", "l", "_", "m", "o", "d", "e", "l",
                      "_", "w", ".", "c", "k", "p", "t">>
\* A parameters-only checkpoint a user keeps under an epoch-numbered name.
WeightsPath(number) == <<"w", "_">> \o Fmt03d(number) \o <<".", "c", "k", "p", "t">>

(* ------------------------------ the model ----------------------------- *)
\* build_model(...) (train.py:90): untrained weights, nothing attached.
BuiltModel == [w |-> <<>>, opt |-> 0, compiled |-> FALSE]
\* model.compile(optimizer=Adam(), loss=..., metrics=[...]) (train.py:114-118)
Compile(m) == [m EXCEPT !.opt = 0, !.compiled = TRUE]

\* One epoch of parameter updates.  With the data order and the seeds fixed,
\* the result is a function of the parameters and optimizer state before it
\* and of the epoch's data: the weights are the history of the updates made.
Update(m, e) ==
    [m EXCEPT !.w = Append(@, <<e, m.opt>>), !.opt = @ + 1]

\* What model.save writes (weights, optimizer state, compile state) and
\* what model.save_weights writes.
FullSnapshot(m) ==
    [kind |-> "full", w |-> m.w, opt |-> m.opt, compiled |-> m.compiled]
WeightsSnapshot(m) ==
    [kind |-> "weights", w |-> m.w, opt |-> 0, compiled |-> FALSE]

WriteFile(d, path, content) == (path :> content) @@ d

\* The model after an uninterrupted run of n epochs from a fresh compile.
RECURSIVE TrainedModel(_)
TrainedModel(n) ==
    IF n = 0 THEN Compile(BuiltModel) ELSE Update(TrainedModel(n - 1), n - 1)

(* --------------------------- EarlyStopping ---------------------------- *)
\* best is <<>> for +infinity and <<v>> for the value v; best_weights is
\* <<>> for None and <<w>> for the weights w.
\* monitor_op(current - min_delta, best) with monitor_op = np.less
IsImprovementOrEqual(current, b) == b = <<>> \/ current - MinDelta <= b[1]
IsImprovement(current, b) == b = <<>> \/ current - MinDelta < b[1]

\* ModelCheckpoint(save_best_only=False): every epoch is saved.
CheckpointBestOnly(current, b) == IsImprovement(current, b)
CheckpointDue(current, b) == TRUE

\* EarlyStopping.on_train_begin
ESBegin == [wait |-> 0, best |-> <<>>, best_weights |-> <<>>]

\* EarlyStopping.on_epoch_end(epoch, logs) with restore_best_weights=True:
\* the callback's new state, model.stop_training and the model's weights.
ESOnEpochEnd(es, w, e, current) ==
    LET bw0 == IF es.best_weights = <<>> THEN <<w>> ELSE es.best_weights
        wait1 == es.wait + 1
    IN  IF IsImprovement(current, es.best)
        THEN [wait |-> 0, best |-> <<current>>, best_weights |-> <<w>>,
              stop |-> FALSE, w |-> w]
        ELSE IF wait1 >= Patience /\ e > 0
        THEN [wait |-> wait1, best |-> es.best, best_weights |-> bw0,
              stop |-> TRUE, w |-> bw0[1]]
        ELSE [wait |-> wait1, best |-> es.best, best_weights |-> bw0,
              stop |-> FALSE, w |-> w]

(* ------------------------------ train() ------------------------------- *)
\* model.fit: "for epoch in range(initial_epoch, epochs)" with
\* "if self.stop_training: break" at the end of the body
LoopContinuesOneMore(stop, next, total) == ~stop /\ next <= total
LoopContinues(stop, next, total) == ~stop /\ next < total

\* train.py:93, 112-118  no load_model_path: compile the new model
T_New ==
    /\ tpc = "start"
    /\ load_model_path = <<>>
    /\ model' = Compile(model)
    /\ tpc' = "ready"
    /\ UNCHANGED <<load_model_path, num_epochs, disk, prior_losses, initial_epoch,
                   loaded, epoch, val_loss, losses, epochs_run, wait, best,
                   best_weights, stop_training, written>>

\* train.py:93-98  parse the epoch from the file name; int() may raise
T_Parse ==
    /\ tpc = "start"
    /\ load_model_path # <<>>
    /\ IF IsPyInt(EpochText(load_model_path))
       THEN /\ initial_epoch' = PyInt(EpochText(load_model_path))
            /\ tpc' = "parsed"
       ELSE /\ initial_epoch' = initial_epoch
            /\ tpc' = "ValueError"
    /\ UNCHANGED <<load_model_path, num_epochs, disk, prior_losses, model, loaded,
                   epoch, val_loss, losses, epochs_run, wait, best, best_weights,
                   stop_training, written>>

\* train.py:99-103  a .h5 path: tf.keras.models.load_model replaces the model
\* by the saved one (weights, optimizer state, compile state)
T_LoadFull ==
    /\ tpc = "parsed"
    /\ EndsWith(load_model_path, H5Ext)
    /\ IF load_model_path \in DOMAIN disk /\ disk[load_model_path].kind = "full"
       THEN /\ model' = [w |-> disk[load_model_path].w,
                         opt |-> disk[load_model_path].opt,
                         compiled |-> disk[load_model_path].compiled]
            /\ loaded' = TRUE
            /\ tpc' = "ready"
       ELSE /\ UNCHANGED <<model, loaded>>
            /\ tpc' = "LoadError"
    /\ UNCHANGED <<load_model_path, num_epochs, disk, prior_losses, initial_epoch,
                   epoch, val_loss, losses, epochs_run, wait, best, best_weights,
                   stop_training, written>>

\* train.py:104-111  any other path: model.load_weights into the built model;
\* the compile call that followed it is commented out
T_LoadWeights ==
    /\ tpc = "parsed"
    /\ ~EndsWith(load_model_path, H5Ext)
    /\ IF load_model_path \in DOMAIN disk /\ disk[load_model_path].kind = "weights"
       THEN /\ model' = [model EXCEPT !.w = disk[load_model_path].w]
            /\ loaded' = TRUE
            /\ tpc' = "ready"
       ELSE /\ UNCHANGED <<model, loaded>>
            /\ tpc' = "LoadError"
    /\ UNCHANGED <<load_model_path, num_epochs, disk, prior_losses, initial_epoch,
                   epoch, val_loss, losses, epochs_run, wait, best, best_weights,
                   stop_training, written>>

\* train.py:135-141  model.fit is called: it raises on a model that was never
\* compiled; otherwise the callbacks' on_train_begin run and the epoch loop
\* starts at initial_epoch
T_Fit ==
    /\ tpc = "ready"
    /\ IF model.compiled
       THEN /\ wait' = ESBegin.wait
            /\ best' = ESBegin.best
            /\ best_weights' = ESBegin.best_weights
            /\ stop_training' = FALSE
            /\ epoch' = initial_epoch
            /\ tpc' = IF LoopContinues(FALSE, initial_epoch, num_epochs)
                      THEN "train" ELSE "train_end"
       ELSE /\ UNCHANGED <<wait, best, best_weights, stop_training, epoch>>
            /\ tpc' = "RuntimeError"
    /\ UNCHANGED <<load_model_path, num_epochs, disk, prior_losses, initial_epoch,
                   model, loaded, val_loss, losses, epochs_run, written>>

\* model.fit: the training pass of one epoch (forward, backward, update)
T_TrainEpoch ==
    /\ tpc = "train"
    /\ model' = Update(model, epoch)
    /\ epochs_run' = epochs_run + 1
    /\ tpc' = "validate"
    /\ UNCHANGED <<load_model_path, num_epochs, disk, prior_losses, initial_epoch,
                   loaded, epoch, val_loss, losses, wait, best, best_weights,
                   stop_training, written>>

\* model.fit: the validation pass of the epoch; no parameter changes
T_Validate ==
    /\ tpc = "validate"
    /\ \E v \in Levels :
        /\ val_loss' = v
        /\ losses' = Append(losses, v)
    /\ tpc' = "checkpoint"
    /\ UNCHANGED <<load_model_path, num_epochs, disk, prior_losses, initial_epoch,
                   model, loaded, epoch, epochs_run, wait, best, best_weights,
                   stop_training, written>>

\* train.py:130  ModelCheckpoint.on_epoch_end, the first callback of the list
T_Checkpoint ==
    /\ tpc = "checkpoint"
    /\ IF CheckpointDue(val_loss, best)
       THEN /\ disk' = WriteFile(disk, CkptPath(epoch + 1), FullSnapshot(model))
            /\ written' = Append(written, CkptPath(epoch + 1))
       ELSE UNCHANGED <<disk, written>>
    /\ tpc' = "earlystop"
    /\ UNCHANGED <<load_model_path, num_epochs, prior_losses, initial_epoch, model,
                   loaded, epoch, val_loss, losses, epochs_run, wait, best,
                   best_weights, stop_training>>

\* train.py:131  EarlyStopping.on_epoch_end, the second callback, and the
\* end of the loop body: "if self.stop_training: break"
T_EarlyStop ==
    /\ tpc = "earlystop"
    /\ LET r == ESOnEpochEnd([wait |-> wait, best |-> best,
                              best_weights |-> best_weights],
                             model.w, epoch, val_loss)
       IN  /\ wait' = r.wait
           /\ best' = r.best
           /\ best_weights' = r.best_weights
           /\ stop_training' = (stop_training \/ r.stop)
           /\ model' = [model EXCEPT !.w = r.w]
           /\ tpc' = IF LoopContinues(stop_training \/ r.stop, epoch + 1, num_epochs)
                     THEN "train" ELSE "train_end"
    /\ epoch' = epoch + 1
    /\ UNCHANGED <<load_model_path, num_epochs, disk, prior_losses, initial_epoch,
                   loaded, val_loss, losses, epochs_run, written>>

\* train.py:142  model.save("./final_model.h5")
T_SaveFinal ==
    /\ tpc = "train_end"
    /\ disk' = WriteFile(disk, FinalModelPath, FullSnapshot(model))
    /\ written' = Append(written, FinalModelPath)
    /\ tpc' = "save_weights"
    /\ UNCHANGED <<load_model_path, num_epochs, prior_losses, initial_epoch, model,
                   loaded, epoch, val_loss, losses, epochs_run, wait, best,
                   best_weights, stop_training>>

\* train.py:143  model.save_weights("./final_model_w.ckpt")
T_SaveFinalWeights ==
    /\ tpc = "save_weights"
    /\ disk' = WriteFile(disk, FinalWeightsPath, WeightsSnapshot(model))
    /\ written' = Append(written, FinalWeightsPath)
    /\ tpc' = "done"
    /\ UNCHANGED <<load_model_path, num_epochs, prior_losses, initial_epoch, model,
                   loaded, epoch, val_loss, losses, epochs_run, wait, best,
                   best_weights, stop_training>>

(* --------------------------- specifications --------------------------- *)
\* What an earlier run of train() that completed k epochs left on disk: its
\* per-epoch checkpoints, and a parameters-only copy of the last one.
PriorDisk(k) ==
    [p \in {CkptPath(j) : j \in 1 .. k} \cup (IF k > 0 THEN {WeightsPath(k)} ELSE {}) |->
        IF p = WeightsPath(k) THEN WeightsSnapshot(TrainedModel(k))
        ELSE FullSnapshot(TrainedModel(CHOOSE j \in 1 .. k : CkptPath(j) = p))]

PathChoices(k) ==
    IF k = 0 THEN {<<>>, FinalModelPath, FinalWeightsPath}
    ELSE {CkptPath(k), WeightsPath(k)}

TrainStart ==
    /\ tpc = "start"
    /\ initial_epoch = 0
    /\ model = BuiltModel
    /\ loaded = FALSE
    /\ epoch = 0
    /\ val_loss = 0
    /\ losses = <<>>
    /\ epochs_run = 0
    /\ wait = 0
    /\ best = <<>>
    /\ best_weights = <<>>
    /\ stop_training = FALSE
    /\ written = <<>>

TrainInit ==
    /\ num_epochs = NumEpochs
    /\ \E k \in 0 .. MaxPrior :
        /\ prior_losses \in {q \in SeqsUpTo(Levels, k) : Len(q) = k}
        /\ disk = PriorDisk(k)
        /\ load_model_path \in PathChoices(k)
    /\ TrainStart
    /\ DecodeIdle

\* The paths tried: every stem of up to MaxPathLen characters, alone or
\* followed by ".h5".  The characters: an epoch digit, the three separators
\* the parse splits on, the padding and sign int() takes, and a digit of
\* another script (ARABIC-INDIC DIGIT FIVE).
Alphabet == {"5", "_", ".", "/", " ", "+", "U+0665"}

ResumeInit ==
    /\ num_epochs = ShortEpochs
    /\ prior_losses = <<>>
    /\ load_model_path \in {stem \o ext : stem \in SeqsUpTo(Alphabet, MaxPathLen),
                                          ext \in {<<>>, H5Ext}}
    /\ disk \in {PriorDisk(0)} \cup
                (IF load_model_path = <<>> THEN {}
                 ELSE {(load_model_path :> FullSnapshot(TrainedModel(0))),
                       (load_model_path :> WeightsSnapshot(TrainedModel(0)))})
    /\ TrainStart
    /\ DecodeIdle

TrainIdle ==
    /\ load_model_path = <<>>
    /\ num_epochs = 0
    /\ disk = PriorDisk(0)
    /\ prior_losses = <<>>
    /\ tpc = "idle"
    /\ initial_epoch = 0
    /\ model = BuiltModel
    /\ loaded = FALSE
    /\ epoch = 0
    /\ val_loss = 0
    /\ losses = <<>>
    /\ epochs_run = 0
    /\ wait = 0
    /\ best = <<>>
    /\ best_weights = <<>>
    /\ stop_training = FALSE
    /\ written = <<>>

DecodeInit ==
    /\ DecodeStart
    /\ TrainIdle

DecodeNext ==
    \/ D_ArgMax /\ UNCHANGED tvars
    \/ D_Frame /\ UNCHANGED tvars
    \/ D_WriteFile /\ UNCHANGED tvars

TrainNext ==
    \/ T_New /\ UNCHANGED dvars
    \/ T_Parse /\ UNCHANGED dvars
    \/ T_LoadFull /\ UNCHANGED dvars
    \/ T_LoadWeights /\ UNCHANGED dvars
    \/ T_Fit /\ UNCHANGED dvars
    \/ T_TrainEpoch /\ UNCHANGED dvars
    \/ T_Validate /\ UNCHANGED dvars
    \/ T_Checkpoint /\ UNCHANGED dvars
    \/ T_EarlyStop /\ UNCHANGED dvars
    \/ T_SaveFinal /\ UNCHANGED dvars
    \/ T_SaveFinalWeights /\ UNCHANGED dvars

SpecDecode == DecodeInit /\ [][DecodeNext]_vars
SpecTrain == TrainInit /\ [][TrainNext]_vars
SpecResume == ResumeInit /\ [][TrainNext]_vars

(***************************************************************************)
(*                        PROPERTIES OF THE DECODER                        *)
(***************************************************************************)

\* The arg-max class of a frame, stated without the scan: the lowest class
\* that holds the highest score of the row.
ArgMaxClass(t) ==
    LET row == output_tensor[t + 1]
        top == CHOOSE v \in {row[n] : n \in Classes} : \A n \in Classes : row[n] <= v
    IN  CHOOSE c \in Classes : row[c] = top /\ \A n \in 0 .. c - 1 : row[n] < top

\* Frames are numbered from 0; frame t has been decided once i > t.
FramesDone == 0 .. i - 1
EventsAt(t) ==
    {k \in 1 .. Len(events) :
        events[k].start_time.num * sr = t * hop_length * events[k].start_time.den}
FracLess(a, b) == a.num * b.den < b.num * a.den
IsFrameDuration(d) == d.num * sr = hop_length * d.den

\* C1: for every frame t the decoder has decided, an event exists for frame t
\* if and only if the frame's arg-max class c satisfies 1 <= c <= 127 (class 0
\* and classes above 127 emit nothing, and raise nothing), the event carries
\* pitch c, and the decoder ends only after deciding every frame.
C1_RangeFilter ==
    /\ dpc \in {"loop", "done"} =>
        LET c == [t \in FramesDone |-> ArgMaxClass(t)]
        IN  \A t \in FramesDone :
                /\ (EventsAt(t) # {}) <=> (1 <= c[t] /\ c[t] <= 127)
                /\ \A k \in EventsAt(t) : events[k].pitch = c[t]
    /\ dpc = "done" => i = Len(output_tensor)

\* A frame above the range is dropped and the frame after it still emits.
C1_Witness ==
    /\ dpc = "done"
    /\ Len(output_tensor) = 2
    /\ ArgMaxClass(0) > 127
    /\ ArgMaxClass(1) \in 1 .. 127
    /\ Len(events) = 1
    /\ events[1].pitch = ArgMaxClass(1)

\* C2: at most one event per frame; every event starts at t * frame_duration
\* for a decided frame t and lasts frame_duration = hop_length / sr; the
\* events are in strictly ascending start_time; two adjacent frames with the
\* same predicted pitch give two events of one frame each.
C2_OneEventPerFrame ==
    dpc \in {"loop", "done"} =>
        LET c == [t \in FramesDone |-> ArgMaxClass(t)]
        IN  /\ \A t \in FramesDone : Cardinality(EventsAt(t)) <= 1
            /\ \A k \in 1 .. Len(events) :
                /\ \E t \in FramesDone : k \in EventsAt(t)
                /\ IsFrameDuration(events[k].duration)
            /\ \A k \in 1 .. Len(events) - 1 :
                FracLess(events[k].start_time, events[k + 1].start_time)
            /\ \A t \in FramesDone :
                (/\ t + 1 \in FramesDone
                 /\ c[t] = c[t + 1]
                 /\ c[t] \in 1 .. 127)
                => \E k \in EventsAt(t), l \in EventsAt(t + 1) :
                    /\ k # l
                    /\ IsFrameDuration(events[k].duration)
                    /\ IsFrameDuration(events[l].duration)

\* Two adjacent frames with the same pitch have been decoded.
C2_Witness ==
    /\ dpc = "done"
    /\ Len(output_tensor) = 2
    /\ ArgMaxClass(0) = ArgMaxClass(1)
    /\ ArgMaxClass(0) \in 1 .. 127
    /\ Len(events) = 2

(***************************************************************************)
(*                 PROPERTIES OF THE TRAINING ORCHESTRATOR                 *)
(***************************************************************************)

\* The orchestrator's states, read off the position in train().
InLoop == tpc \in {"train", "validate", "checkpoint", "earlystop"}
Finalizing == tpc \in {"train_end", "save_weights", "done"}
Raised == tpc \in {"ValueError", "LoadError", "RuntimeError"}
OrchestratorState ==
    IF tpc \in {"start", "parsed", "ready"} \/ Raised THEN "Uninitialized"
    ELSE IF InLoop THEN "Training"
    ELSE IF stop_training THEN "EarlyStopped"
    ELSE "Completed"

\* The epochs of this run whose end-of-epoch callbacks have all run.
EpochEndsPassed == tpc \in {"train", "train_end", "save_weights", "done"}
EpochsCheckpointed ==
    IF tpc \in {"validate", "checkpoint"} THEN epochs_run - 1 ELSE epochs_run

SetMin(S) == CHOOSE x \in S : \A y \in S : x <= y
\* The lowest validation loss this run observed before its j-th epoch.
BestBefore(l, j) == SetMin({l[q] : q \in 1 .. j - 1})
\* The j-th epoch of the run improves strictly / by at least the minimum delta.
ImprovesByMoreThanDelta(l, j) == j = 1 \/ BestBefore(l, j) - l[j] > MinDelta
ImprovesByAtLeastDelta(l, j) == j = 1 \/ BestBefore(l, j) - l[j] >= MinDelta
\* The last `Patience` epochs of the run all failed to improve.
Stalled(l, Improves(_, _)) ==
    /\ Len(l) >= Patience
    /\ \A j \in Len(l) - Patience + 1 .. Len(l) : ~Improves(l, j)
\* The first epoch of the run that reached its lowest validation loss.
BestEpochOf(l) ==
    SetMin({j \in 1 .. Len(l) : l[j] = SetMin({l[q] : q \in 1 .. Len(l)})})

\* C3 as amended: once an epoch has ended, training has been stopped early
\* exactly when each of the last 10 epochs failed to bring the validation loss
\* strictly below the best value seen before it (an equal loss is a failure);
\* the stopped run leaves the loop with the parameters of the first epoch that
\* reached the best validation loss, before any final snapshot is written.
C3_EarlyStopStrict ==
    (EpochEndsPassed /\ epochs_run > 0) =>
        /\ stop_training <=> Stalled(losses, ImprovesByMoreThanDelta)
        /\ stop_training =>
            /\ Finalizing
            /\ model.w = disk[CkptPath(initial_epoch + BestEpochOf(losses))].w
        /\ tpc = "train_end" => FinalModelPath \notin {written[k] : k \in 1 .. Len(written)}

\* C3 as claimed: ... exactly when each of the last 10 epochs failed to
\* improve the validation loss by at least min_delta = 0.
C3_EarlyStopAtLeastDelta ==
    (EpochEndsPassed /\ epochs_run > 0) =>
        (stop_training <=> Stalled(losses, ImprovesByAtLeastDelta))

\* A run was stopped early and rolled back to an earlier epoch's parameters.
C3_Witness ==
    /\ tpc = "done"
    /\ stop_training
    /\ Len(model.w) < initial_epoch + epochs_run
    /\ model.w = disk[CkptPath(initial_epoch + BestEpochOf(losses))].w

\* The run that is never interrupted, on the validation losses `sched`, after
\* n epochs or at the epoch it stopped at.
RECURSIVE Uninterrupted(_, _)
Uninterrupted(sched, n) ==
    IF n = 0
    THEN [m |-> Compile(BuiltModel), es |-> ESBegin, stop |-> FALSE, epoch |-> 0]
    ELSE LET p == Uninterrupted(sched, n - 1)
         IN  IF p.stop \/ ~LoopContinues(p.stop, p.epoch, num_epochs) THEN p
             ELSE LET m1 == Update(p.m, p.epoch)
                      r == ESOnEpochEnd(p.es, m1.w, p.epoch, sched[n])
                  IN  [m |-> [m1 EXCEPT !.w = r.w],
                       es |-> [wait |-> r.wait, best |-> r.best,
                               best_weights |-> r.best_weights],
                       stop |-> r.stop, epoch |-> p.epoch + 1]

\* The validation losses of the earlier run followed by those of this one.
Schedule == prior_losses \o losses
ResumedFull == loaded /\ EndsWith(load_model_path, H5Ext)
ResumedWeights == loaded /\ ~EndsWith(load_model_path, H5Ext)

\* C4 as amended: a run resumed from the full-model checkpoint named with
\* epoch k starts its epoch counter at k, the number of epochs the checkpoint
\* holds; at the start of every epoch e it holds the parameters and optimizer
\* state the uninterrupted run holds at the start of epoch e whenever that
\* run gets as far as epoch e without stopping early; a run resumed from a
\* parameters-only checkpoint trains no epoch.
C4_ResumeAlignment ==
    /\ loaded => initial_epoch = Len(prior_losses)
    /\ (ResumedFull /\ (InLoop \/ Finalizing)) => epoch >= initial_epoch
    /\ (ResumedFull /\ EpochEndsPassed) =>
        (epoch = initial_epoch + epochs_run /\ Len(Schedule) = epoch)
    /\ (ResumedFull /\ tpc = "train") =>
        LET u == Uninterrupted(Schedule, epoch)
        IN  ~u.stop => (u.epoch = epoch /\ u.m = model)
    /\ ResumedWeights => (epochs_run = 0 /\ ~InLoop /\ ~Finalizing)

\* C4 as claimed: the resumed run passes only through (epoch counter,
\* parameters) states the uninterrupted run passes through, and ends in the
\* uninterrupted run's terminal state with its parameters.
C4_SameTrajectory ==
    /\ (ResumedFull /\ tpc = "train") =>
        LET u == Uninterrupted(Schedule, epoch)
        IN  ~u.stop /\ u.epoch = epoch /\ u.m = model
    /\ (ResumedFull /\ tpc = "done") =>
        LET u == Uninterrupted(Schedule, Len(Schedule))
        IN  u.stop = stop_training /\ u.epoch = epoch /\ u.m = model

\* A resumed run has trained epochs and finalized.
C4_Witness ==
    /\ ResumedFull
    /\ tpc = "done"
    /\ initial_epoch > 0
    /\ epochs_run >= 2
    /\ Uninterrupted(Schedule, Len(Schedule)).epoch = epoch

\* C5: every epoch that has ended has its checkpoint on disk, written in epoch
\* order under the name of its (1-based) epoch number whether or not the epoch
\* improved, holding the parameters as they were after that epoch's update;
\* the next epoch starts only after the write: at the start of an epoch the
\* checkpoints of all earlier epochs of the run are the files written so far.
C5_CheckpointEveryEpoch ==
    (InLoop \/ Finalizing) =>
        /\ Len(written) >= EpochsCheckpointed
        /\ InLoop => Len(written) = EpochsCheckpointed
        /\ \A j \in 1 .. EpochsCheckpointed :
            /\ written[j] = CkptPath(initial_epoch + j)
            /\ written[j] \in DOMAIN disk
            /\ disk[written[j]].kind = "full"
            /\ Len(disk[written[j]].w) = initial_epoch + j
            /\ disk[written[j]].w[initial_epoch + j][1] = initial_epoch + j - 1
        /\ tpc = "earlystop" => disk[CkptPath(epoch + 1)] = FullSnapshot(model)

\* An epoch that did not improve on the one before it was checkpointed, and
\* the next epoch has started.
C5_Witness ==
    /\ tpc = "train"
    /\ epochs_run >= 2
    /\ losses[2] > losses[1]
    /\ written[2] = CkptPath(initial_epoch + 2)
    /\ Len(disk[written[2]].w) = initial_epoch + 2

\* A measure of what is left of the run: the stage of train(), the epochs
\* left in the loop, and the steps left in the current epoch.
StageRank ==
    CASE tpc = "start" -> 6
      [] tpc = "parsed" -> 5
      [] tpc = "ready" -> 4
      [] InLoop -> 3
      [] tpc = "train_end" -> 2
      [] tpc = "save_weights" -> 1
      [] OTHER -> 0
StepRank ==
    CASE tpc = "train" -> 4
      [] tpc = "validate" -> 3
      [] tpc = "checkpoint" -> 2
      [] tpc = "earlystop" -> 1
      [] OTHER -> 0
EpochsLeft == IF InLoop THEN Max(0, num_epochs - epoch) ELSE 0
Remaining == <<StageRank, EpochsLeft, StepRank>>
LexLess(a, b) ==
    \/ a[1] < b[1]
    \/ a[1] = b[1] /\ a[2] < b[2]
    \/ a[1] = b[1] /\ a[2] = b[2] /\ a[3] < b[3]

\* Some step of train() can be taken (T_Parse by its guard: it can be taken
\* on every non-empty path, raising or not).
CanStep ==
    \/ tpc = "start" /\ load_model_path # <<>>
    \/ ENABLED (T_New \/ T_LoadFull \/ T_LoadWeights \/ T_Fit \/ T_TrainEpoch
                \/ T_Validate \/ T_Checkpoint \/ T_EarlyStop \/ T_SaveFinal
                \/ T_SaveFinalWeights)

C7_Bounded ==
    /\ (~Raised /\ tpc # "done") => CanStep
    /\ epochs_run <= Max(0, num_epochs - initial_epoch)
    /\ InLoop => ~stop_training
    /\ Finalizing =>
        /\ OrchestratorState \in {"EarlyStopped", "Completed"}
        /\ OrchestratorState = "EarlyStopped"
             <=> (epochs_run > 0 /\ Stalled(losses, ImprovesByMoreThanDelta))
        /\ OrchestratorState = "Completed"
             <=> (/\ initial_epoch + epochs_run >= num_epochs
                  /\ ~(epochs_run > 0 /\ Stalled(losses, ImprovesByMoreThanDelta)))

\* C7: a run that enters Training ends in EarlyStopped or in Completed: no
\* step leaves it stuck, every step brings it closer to the end, it trains at
\* most num_epochs - initial_epoch epochs (none when that is not positive),
\* and it is Completed exactly when the epoch count is exhausted and the
\* early-stopping condition has not fired (EarlyStopped exactly when it has).
C7_Terminates == [](C7_Bounded) /\ [][LexLess(Remaining', Remaining)]_vars

\* A run has ended Completed after the configured number of epochs.
C7_Witness ==
    /\ tpc = "done"
    /\ OrchestratorState = "Completed"
    /\ epochs_run = num_epochs - initial_epoch
    /\ epochs_run > Patience

AllWritten == {written[k] : k \in 1 .. Len(written)}

\* C8: a finished run has written, after every per-epoch checkpoint and as its
\* last two files, the full-model snapshot and the parameters-only snapshot;
\* both hold the parameters the model ends with (after the rollback of an
\* early stop: those of the best epoch), their names are no per-epoch
\* checkpoint's, and every per-epoch checkpoint still holds its own epoch.
C8_FinalSnapshots ==
    tpc = "done" =>
        /\ Len(written) = epochs_run + 2
        /\ written[Len(written) - 1] = FinalModelPath
        /\ written[Len(written)] = FinalWeightsPath
        /\ disk[FinalModelPath] = FullSnapshot(model)
        /\ disk[FinalWeightsPath].kind = "weights"
        /\ disk[FinalWeightsPath].w = model.w
        /\ stop_training =>
             model.w = disk[CkptPath(initial_epoch + BestEpochOf(losses))].w
        /\ ~stop_training => Len(model.w) = initial_epoch + epochs_run
        /\ \A j \in 1 .. epochs_run :
            /\ written[j] \notin {FinalModelPath, FinalWeightsPath}
            /\ Len(disk[written[j]].w) = initial_epoch + j

\* A run stopped early has finalized with rolled-back parameters.
C8_Witness ==
    /\ tpc = "done"
    /\ stop_training
    /\ Len(disk[FinalModelPath].w) < initial_epoch + epochs_run
    /\ disk[FinalWeightsPath].w = disk[FinalModelPath].w

\* C10: whenever model.fit is about to be called, the model is compiled (it
\* has a loss function, an optimizer and metrics attached).
C10_CompiledBeforeFit == tpc = "ready" => model.compiled

(* ------------------------- the filename parsing ----------------------- *)
IndicesOf(s, c) == {k \in 1 .. Len(s) : s[k] = c}
SetMax(S) == CHOOSE x \in S : \A y \in S : x >= y
\* The file name of a path: what follows its last '/'.
FileNameOf(path) ==
    IF IndicesOf(path, "/") = {} THEN path
    ELSE SubSeq(path, SetMax(IndicesOf(path, "/")) + 1, Len(path))
\* The text between the last '_' of the file name and the '.' that follows.
EpochField(path) ==
    LET name == FileNameOf(path)
        from == SetMax(IndicesOf(name, "_")) + 1
        dots == {k \in IndicesOf(name, ".") : k >= from}
        to == IF dots = {} THEN Len(name) ELSE SetMin(dots) - 1
    IN  SubSeq(name, from, to)
IsDecimal(text) ==
    /\ Len(text) > 0
    /\ \A k \in 1 .. Len(text) : text[k] \in UNION {DecimalDigitChars[d] : d \in 1 .. 10}
Signless(text) ==
    IF text # <<>> /\ text[1] \in {"+", "-"} THEN SubSeq(text, 2, Len(text)) ELSE text
ValueOf(text) ==
    LET term[k \in 0 .. Len(text)] ==
            IF k = 0 THEN 0
            ELSE term[k - 1] +
                 Pow10(Len(text) - k) * (CHOOSE v \in 0 .. 9 : text[k] \in DecimalDigitChars[v + 1])
    IN  term[Len(text)]

\* The file name has the position the epoch is read from: a last '_'.
HasEpochField(path) == IndicesOf(FileNameOf(path), "_") # {}
\* The field carries an integer, read generously: decimal digits, possibly
\* signed, possibly with white space around (the field holds no '_').
CarriesInteger(text) == IsDecimal(Signless(Strip(text)))
IntegerOf(text) ==
    IF Strip(text)[1] = "-" THEN 0 - ValueOf(Signless(Strip(text)))
    ELSE ValueOf(Signless(Strip(text)))

\* C6: on a resume, once the parse has run: if the file name carries an
\* integer between its last '_' and the following '.', that integer is the
\* initial epoch, and the epoch loop starts from it; if it carries none there
\* (no integer in the field, or no '_' in the name), the run has failed with
\* an error, with nothing loaded, no epoch trained and nothing written.
C6_EpochFromFileName ==
    (tpc # "start" /\ load_model_path # <<>>) =>
        IF /\ HasEpochField(load_model_path)
           /\ CarriesInteger(EpochField(load_model_path))
        THEN /\ tpc # "ValueError"
             /\ initial_epoch = IntegerOf(EpochField(load_model_path))
             /\ (tpc = "train" \/ Finalizing) => epoch = initial_epoch + epochs_run
        ELSE /\ tpc = "ValueError"
             /\ ~loaded
             /\ model = BuiltModel
             /\ epochs_run = 0
             /\ written = <<>>

=============================================================================
